---- MODULE Spec2Model ----
(***************************************************************************)
(* A model of src/app.py: the ContentSafety decision engine                *)
(* (get_detect_result_by_category, make_decision, detect) and the Flask    *)
(* upload handler upload_image that wraps it.                              *)
(*                                                                         *)
(* Python values are modelled as follows.                                  *)
(*   - a str is a sequence of one-character strings where the code looks   *)
(*     inside it (file names, base64 text), and a TLA+ string otherwise;   *)
(*   - a dict with insertion order that the code iterates (the threshold   *)
(*     map) is a sequence of key/value records with distinct keys;         *)
(*   - a dict that is only read by key is a function or a record;          *)
(*   - a raised exception is an outcome record of kind "Error".            *)
(*                                                                         *)
(* Left out: the index route, the constant URL and headers of detect, the  *)
(* MAX_CONTENT_LENGTH cap, a missing upload folder, and severities that    *)
(* are no integers.  file.save and the read of the saved file are each one *)
(* step; the server handles requests concurrently (app.run serves each     *)
(* request on its own thread).                                             *)
(***************************************************************************)
EXTENDS Integers, Sequences, FiniteSets, TLC

VARIABLES
    detection_result,   \* argument of make_decision / get_detect_result_by_category
    reject_thresholds,  \* argument of make_decision
    outcome,            \* what the last direct call returned or raised
    remembered,         \* an earlier make_decision call: its arguments and outcome
    content_safety,     \* the ContentSafety object's fields
    requests,           \* the upload requests being handled, by request id
    upload_folder       \* the files under UPLOAD_FOLDER: path -> bytes

vars == <<detection_result, reject_thresholds, outcome, remembered,
          content_safety, requests, upload_folder>>

decisionVars == <<detection_result, reject_thresholds, outcome, remembered>>
uploadVars == <<requests, upload_folder>>

-----------------------------------------------------------------------------
(* Bounds of the model *)

\* longest categoriesAnalysis list of a detection result
MaxEntries == 2
\* largest number of keys of a threshold map
MaxThresholds == 2
\* number of upload requests handled concurrently
NumRequests == 2

\* the categories the enumerated detection results and threshold maps speak of
InputCategories == {"Hate", "Violence"}
\* the severities the enumerated detection results carry
SeverityValues == {0, 1, 2, 999}
\* the thresholds the enumerated threshold maps carry
ThresholdValues == {-1, 0, 2}

-----------------------------------------------------------------------------
(* Enumerations *)

Category == {"Hate", "SelfHarm", "Sexual", "Violence"}

Accept == "Accept"
Reject == "Reject"
Action == {Accept, Reject}

\* Action.value
ActionValue(a) == IF a = Accept THEN 1 ELSE 2

\* the value of a missing "category" key: res.get("category", None)
None == "None"

-----------------------------------------------------------------------------
(* Outcomes of a call: a returned value or a raised exception *)

\* ValueError(f"Invalid Category {category}"), line 94
CategoryNotFound == "ValueError: Invalid Category"
\* ValueError(f"Cannot find detection result for {category}"), line 102
MissingCategoryResult == "ValueError: Cannot find detection result"
\* iterating detect_result.get("categoriesAnalysis", None) when the key is missing
NoneNotIterable == "TypeError: 'NoneType' object is not iterable"

EmptyMap == [c \in {} |-> Accept]
NoRecord == [category |-> None, hasSeverity |-> FALSE, severity |-> 0]

NoOutcome ==
    [op |-> "none", arg |-> None, kind |-> "None", error |-> "",
     suggested_action |-> "", action_by_category |-> EmptyMap, record |-> NoRecord]

\* Decision(suggested_action, action_by_category)
Decision(suggested_action, action_by_category) ==
    [op |-> "make_decision", arg |-> None, kind |-> "Decision", error |-> "",
     suggested_action |-> suggested_action,
     action_by_category |-> action_by_category, record |-> NoRecord]

\* an exception leaving the call: nothing of the call's locals survives it
Raise(op, arg, error) ==
    [op |-> op, arg |-> arg, kind |-> "Error", error |-> error,
     suggested_action |-> "", action_by_category |-> EmptyMap, record |-> NoRecord]

Found(category, res) ==
    [op |-> "get_detect_result_by_category", arg |-> category, kind |-> "Record",
     error |-> "", suggested_action |-> "", action_by_category |-> EmptyMap,
     record |-> res]

-----------------------------------------------------------------------------
(* ContentSafety.get_detect_result_by_category *)

\* FirstMatch with the comparison of line 92 left out: the first entry matches
FirstMatch_AnyCategory(category, category_res, i) ==
    IF i > Len(category_res) THEN 0 ELSE i

RECURSIVE FirstMatch(_, _, _)
\* the for loop of lines 91-93: index of the first entry whose "category" is
\* category.name, or 0 when the loop ends without a match
FirstMatch(category, category_res, i) ==
    IF i > Len(category_res) THEN 0
    ELSE IF category = category_res[i].category THEN i
    ELSE FirstMatch(category, category_res, i + 1)

\* get_detect_result_by_category returning None (a record without severity)
\* instead of raising when the loop finds nothing
get_detect_result_by_category_ReturnsNone(category, detect_result) ==
    IF ~detect_result.hasAnalysis
    THEN Raise("get_detect_result_by_category", category, NoneNotIterable)
    ELSE LET category_res == detect_result.categoriesAnalysis
             i == FirstMatch(category, category_res, 1)
         IN  IF i # 0
             THEN Found(category, category_res[i])
             ELSE Found(category, NoRecord)

get_detect_result_by_category(category, detect_result) ==
    IF ~detect_result.hasAnalysis
    THEN Raise("get_detect_result_by_category", category, NoneNotIterable)
    ELSE LET category_res == detect_result.categoriesAnalysis
             i == FirstMatch(category, category_res, 1)
         IN  IF i # 0
             THEN Found(category, category_res[i])
             ELSE Raise("get_detect_result_by_category", category, CategoryNotFound)

-----------------------------------------------------------------------------
(* ContentSafety.make_decision *)

\* action_result[category] = action
Put(m, k, v) == [x \in (DOMAIN m) \cup {k} |-> IF x = k THEN v ELSE m[x]]

\* line 105 with > for >=
CategoryAction_Strict(threshold, severity) ==
    IF threshold # -1 /\ severity > threshold THEN Reject ELSE Accept

\* line 105
CategoryAction(threshold, severity) ==
    IF threshold # -1 /\ severity >= threshold THEN Reject ELSE Accept

\* lines 107-108 without the comparison: the last category's action wins
RaiseFinal_LastWins(final_action, action) == action

\* lines 107-108
RaiseFinal(final_action, action) ==
    IF ActionValue(action) > ActionValue(final_action) THEN action ELSE final_action

\* line 98 as if final_action were kept between calls
StartAction_KeptBetweenCalls ==
    IF outcome.kind = "Decision" THEN outcome.suggested_action ELSE Accept

\* line 98: the value final_action starts from
StartAction == Accept

RECURSIVE DecisionLoop(_, _, _, _, _)
\* the loop of lines 99-108 over reject_thresholds.items(), from item i on;
\* the lookup raises when it finds nothing, so of the test of line 101 only
\* the "severity" part can be true
DecisionLoop(det, thresholds, i, action_result, final_action) ==
    IF i > Len(thresholds) THEN Decision(final_action, action_result)
    ELSE LET category == thresholds[i].category
             threshold == thresholds[i].threshold
             cate_detect_res == get_detect_result_by_category(category, det)
         IN  IF cate_detect_res.kind = "Error"
             THEN Raise("make_decision", None, cate_detect_res.error)
             ELSE IF ~cate_detect_res.record.hasSeverity
             THEN Raise("make_decision", None, MissingCategoryResult)
             ELSE LET severity == cate_detect_res.record.severity
                      action == CategoryAction(threshold, severity)
                  IN  DecisionLoop(det, thresholds, i + 1,
                                   Put(action_result, category, action),
                                   RaiseFinal(final_action, action))

make_decision(det, thresholds) ==
    DecisionLoop(det, thresholds, 1, EmptyMap, StartAction)

-----------------------------------------------------------------------------
(* The arguments the direct calls are made with *)

RECURSIVE SeqsUpTo(_, _)
\* the sequences over S of length at most n
SeqsUpTo(S, n) ==
    IF n = 0 THEN {<<>>}
    ELSE LET shorter == SeqsUpTo(S, n - 1)
         IN  shorter \cup {Append(s, x) : s \in {t \in shorter : Len(t) = n - 1}, x \in S}

\* one object of the categoriesAnalysis list: "category" may be missing or name
\* a category, "severity" may be missing
Entries ==
    {[category |-> c, hasSeverity |-> TRUE, severity |-> v] :
        c \in InputCategories \cup {None}, v \in SeverityValues}
    \cup {[category |-> c, hasSeverity |-> FALSE, severity |-> 0] :
        c \in InputCategories \cup {None}}

NoAnalysis == [hasAnalysis |-> FALSE, categoriesAnalysis |-> <<>>]
Analysis(list) == [hasAnalysis |-> TRUE, categoriesAnalysis |-> list]

DetectionResultsUpTo(n) == {NoAnalysis} \cup {Analysis(s) : s \in SeqsUpTo(Entries, n)}
DetectionResults == DetectionResultsUpTo(MaxEntries)

ThresholdItems == [category : InputCategories, threshold : ThresholdValues]

\* dict keys are distinct
DistinctKeys(t) == \A i, j \in 1..Len(t) : t[i].category = t[j].category => i = j

ThresholdMapsUpTo(n) == {t \in SeqsUpTo(ThresholdItems, n) : DistinctKeys(t)}
ThresholdMaps == ThresholdMapsUpTo(MaxThresholds)

Keys(thresholds) == {thresholds[i].category : i \in 1..Len(thresholds)}

\* ContentSafety.__init__: the three fields, set once
ContentSafetyObject ==
    [endpoint |-> "endpoint", subscription_key |-> "subscription_key",
     api_version |-> "api_version"]

\* stage 0: nothing remembered; 1: a call is remembered; 2: a call with other
\* arguments was made since; 3: the remembered arguments were then called again
NoCall == [stage |-> 0, det |-> NoAnalysis, thr |-> <<>>, outcome |-> NoOutcome]

-----------------------------------------------------------------------------------------------------------------------------------------------------
(* Text: a str the code looks inside is a sequence of one-character strings *)

LowerLetters == <<"a", "b", "c", "d", "e", "f", "g", "h", "i", "j", "k", "l", "m",
                  "n", "o", "p", "q", "r", "s", "t", "u", "v", "w", "x", "y", "z">>
UpperLetters == <<"A", "B", "C", "D", "E", "F", "G", "H", "I", "J", "K", "L", "M",
                  "N", "O", "P", "Q", "R", "S", "T", "U", "V", "W", "X", "Y", "Z">>
Digits == <<"0", "1", "2", "3", "4", "5", "6", "7", "8", "9">>

Range(s) == {s[i] : i \in 1..Len(s)}

\* str.lower() on one character
LowerChar(c) ==
    IF c \in Range(UpperLetters)
    THEN LowerLetters[CHOOSE i \in 1..Len(UpperLetters) : UpperLetters[i] = c]
    ELSE c

\* str.lower()
Lower(s) == [i \in 1..Len(s) |-> LowerChar(s[i])]

\* app.config['ALLOWED_EXTENSIONS']
ALLOWED_EXTENSIONS ==
    {<<"p", "n", "g">>, <<"j", "p", "g">>, <<"j", "p", "e", "g">>, <<"g", "i", "f">>}

\* filename.rsplit('.', 1)[1], for a filename that has a dot: what follows the
\* last dot
RSplitDot(filename) ==
    LET last == CHOOSE i \in 1..Len(filename) :
                    /\ filename[i] = "."
                    /\ \A j \in (i + 1)..Len(filename) : filename[j] # "."
    IN  SubSeq(filename, last + 1, Len(filename))

\* allowed_file without the extension test: any name with a dot passes
allowed_file_AnyExtension(filename) == "." \in Range(filename)

allowed_file(filename) ==
    /\ "." \in Range(filename)
    /\ Lower(RSplitDot(filename)) \in ALLOWED_EXTENSIONS

\* the characters werkzeug's secure_filename keeps: [A-Za-z0-9_.-]
SafeChars ==
    Range(LowerLetters) \cup Range(UpperLetters) \cup Range(Digits) \cup {"_", ".", "-"}

RECURSIVE JoinWords(_, _, _)
\* "_".join(s.split()): runs of blanks become one "_", blanks at either end go
JoinWords(s, i, acc) ==
    IF i > Len(s) THEN acc
    ELSE IF s[i] = " " THEN JoinWords(s, i + 1, acc)
    ELSE IF i > 1 /\ s[i - 1] = " " /\ acc # <<>>
         THEN JoinWords(s, i + 1, acc \o <<"_", s[i]>>)
    ELSE JoinWords(s, i + 1, Append(acc, s[i]))

RECURSIVE StripDotsUnderscores(_)
\* s.strip("._")
StripDotsUnderscores(s) ==
    IF s = <<>> THEN s
    ELSE IF s[1] \in {".", "_"} THEN StripDotsUnderscores(Tail(s))
    ELSE IF s[Len(s)] \in {".", "_"} THEN StripDotsUnderscores(SubSeq(s, 1, Len(s) - 1))
    ELSE s

\* werkzeug.utils.secure_filename on ASCII text: path separators become
\* blanks, words are joined by "_", unsafe characters are dropped, dots and
\* underscores at either end are stripped
secure_filename(filename) ==
    LET spaced == [i \in 1..Len(filename) |->
                      IF filename[i] = "/" THEN " " ELSE filename[i]]
        joined == JoinWords(spaced, 1, <<>>)
        kept == SelectSeq(joined, LAMBDA c : c \in SafeChars)
    IN  StripDotsUnderscores(kept)

\* the base64 alphabet
B64Alphabet == UpperLetters \o LowerLetters \o Digits \o <<"+", "/">>
B64Char(n) == B64Alphabet[n + 1]

RECURSIVE b64encode(_)
\* base64.b64encode(bytes).decode("utf-8"): three bytes become four characters,
\* a last group of one or two bytes is padded with "="
b64encode(bytes) ==
    IF Len(bytes) = 0 THEN <<>>
    ELSE IF Len(bytes) = 1 THEN
        LET n == bytes[1] * 65536
        IN  <<B64Char(n \div 262144), B64Char((n \div 4096) % 64), "=", "=">>
    ELSE IF Len(bytes) = 2 THEN
        LET n == bytes[1] * 65536 + bytes[2] * 256
        IN  <<B64Char(n \div 262144), B64Char((n \div 4096) % 64),
              B64Char((n \div 64) % 64), "=">>
    ELSE
        LET n == bytes[1] * 65536 + bytes[2] * 256 + bytes[3]
        IN  <<B64Char(n \div 262144), B64Char((n \div 4096) % 64),
              B64Char((n \div 64) % 64), B64Char(n % 64)>>
            \o b64encode(SubSeq(bytes, 4, Len(bytes)))

-----------------------------------------------------------------------------
(* The moderation provider's answers *)

Severities(hate, self_harm, sexual, violence) ==
    Analysis(<<[category |-> "Hate", hasSeverity |-> TRUE, severity |-> hate],
               [category |-> "SelfHarm", hasSeverity |-> TRUE, severity |-> self_harm],
               [category |-> "Sexual", hasSeverity |-> TRUE, severity |-> sexual],
               [category |-> "Violence", hasSeverity |-> TRUE, severity |-> violence]>>)

JsonAnswer(status_code, res_content) ==
    [status_code |-> status_code, is_json |-> TRUE, has_error |-> FALSE,
     code |-> "", message |-> "", res_content |-> res_content]

ErrorAnswer(status_code, code, message) ==
    [status_code |-> status_code, is_json |-> TRUE, has_error |-> TRUE,
     code |-> code, message |-> message, res_content |-> NoAnalysis]

\* a body that is no JSON (a gateway's HTML page)
TextAnswer(status_code) ==
    [status_code |-> status_code, is_json |-> FALSE, has_error |-> FALSE,
     code |-> "", message |-> "", res_content |-> NoAnalysis]

NoAnswer == TextAnswer(0)

ProviderAnswers ==
    { JsonAnswer(200, Severities(0, 0, 0, 0)),
      JsonAnswer(200, Severities(2, 0, 0, 0)),
      \* no entry for Violence
      JsonAnswer(200, Analysis(<<[category |-> "Hate", hasSeverity |-> TRUE, severity |-> 4],
                                 [category |-> "SelfHarm", hasSeverity |-> TRUE, severity |-> 0],
                                 [category |-> "Sexual", hasSeverity |-> TRUE, severity |-> 0]>>)),
      \* an object without the categoriesAnalysis key
      JsonAnswer(200, NoAnalysis),
      ErrorAnswer(401, "401", "Access denied"),
      \* a JSON object without the error key
      JsonAnswer(429, NoAnalysis),
      TextAnswer(502) }

-----------------------------------------------------------------------------
(* ContentSafety.detect, from the provider's answer on (lines 82-87) *)

Returned200(res_content) ==
    [exc |-> "", code |-> "", message |-> "", res_content |-> res_content]
Raised(exc, code, message) ==
    [exc |-> exc, code |-> code, message |-> message, res_content |-> NoAnalysis]

\* detect without the status test of line 84
detect_NoStatusCheck(response) ==
    IF ~response.is_json THEN Raised("JSONDecodeError", "", "")
    ELSE Returned200(response.res_content)

detect(response) ==
    IF ~response.is_json THEN Raised("JSONDecodeError", "", "")
    ELSE IF response.status_code # 200
         THEN IF response.has_error
              THEN Raised("DetectionError", response.code, response.message)
              ELSE Raised("KeyError", "", "")
    ELSE Returned200(response.res_content)

-----------------------------------------------------------------------------
(* The upload requests *)

Requests == 1..NumRequests

\* the bytes of the image request r uploads: a GIF signature and one more byte
\* that tells the requests' images apart
ImageOf(r) == <<71, 73, 70, 56, r>>

\* the file names a client may send: "", "cat", "cat.exe", "../a.PNG",
\* "b c.gif"
FileNames ==
    { <<>>,
      <<"c", "a", "t">>,
      <<"c", "a", "t", ".", "e", "x", "e">>,
      <<".", ".", "/", "a", ".", "P", "N", "G">>,
      <<"b", " ", "c", ".", "g", "i", "f">> }

NoReply ==
    [status |-> 0, text |-> "", error |-> "", code |-> "", message |-> "",
     suggested_action |-> "", action_by_category |-> EmptyMap]

\* return text, 400
ClientError(text) == [NoReply EXCEPT !.status = 400, !.text = text]

\* an exception leaving upload_image: the server answers 500
ServerError(error, code, message) ==
    [NoReply EXCEPT !.status = 500, !.error = error, !.code = code, !.message = message]

\* jsonify({...}) of lines 172-175
jsonify(decision) ==
    [NoReply EXCEPT !.status = 200,
                    !.suggested_action = decision.suggested_action,
                    !.action_by_category = decision.action_by_category]

\* pc: "idle" (not sent yet), "save", "open", "detect", "waiting",
\* "answered", "done"
IdleRequest ==
    [pc |-> "idle", has_file |-> FALSE, filename |-> <<>>, path |-> <<>>,
     img_content |-> <<>>, response |-> NoAnswer,
     saves |-> 0, calls |-> 0, decisions |-> 0, reply |-> NoReply]

\* lines 161-166
UploadThresholds ==
    <<[category |-> "Hate", threshold |-> 2],
      [category |-> "SelfHarm", threshold |-> 2],
      [category |-> "Sexual", threshold |-> 2],
      [category |-> "Violence", threshold |-> 2]>>

UploadInit ==
    /\ requests = [r \in Requests |-> IdleRequest]
    /\ upload_folder = EmptyMap

\* upload_image, lines 141-149: the request arrives and is validated
Upload(r) ==
    /\ requests[r].pc = "idle"
    /\ \E has_file \in BOOLEAN, name \in FileNames :
          /\ ~has_file => name = <<>>
          /\ LET req == [requests[r] EXCEPT !.has_file = has_file, !.filename = name]
             IN  requests' = [requests EXCEPT ![r] =
                    IF ~has_file
                       THEN [req EXCEPT !.pc = "done", !.reply = ClientError("No file part")]
                    ELSE IF name = <<>>
                       THEN [req EXCEPT !.pc = "done", !.reply = ClientError("No selected file")]
                    ELSE IF name # <<>> /\ allowed_file(name)
                       THEN [req EXCEPT !.pc = "save", !.path = secure_filename(name)]
                    ELSE [req EXCEPT !.pc = "done", !.reply = ClientError("Invalid file format")]]
    /\ UNCHANGED upload_folder
    /\ UNCHANGED <<decisionVars, content_safety>>

\* lines 150-151: file.save(file_path)
Save(r) ==
    /\ requests[r].pc = "save"
    /\ upload_folder' = Put(upload_folder, requests[r].path, ImageOf(r))
    /\ requests' = [requests EXCEPT ![r].pc = "open", ![r].saves = @ + 1]
    /\ UNCHANGED <<decisionVars, content_safety>>

\* lines 154-155: the file at file_path is read back and encoded
ReadFile(r) ==
    /\ requests[r].pc = "open"
    /\ requests' = [requests EXCEPT
          ![r].pc = "detect",
          ![r].img_content = b64encode(upload_folder[requests[r].path])]
    /\ UNCHANGED upload_folder
    /\ UNCHANGED <<decisionVars, content_safety>>

\* detect, lines 76-81: the body {"image": {"content": img_content}} is built
\* and posted; requests.post is given no timeout and blocks until the provider
\* answers
Post(r) ==
    /\ requests[r].pc = "detect"
    /\ requests' = [requests EXCEPT ![r].pc = "waiting", ![r].calls = @ + 1]
    /\ UNCHANGED upload_folder
    /\ UNCHANGED <<decisionVars, content_safety>>

\* the provider answers the call of request r
Answer(r) ==
    /\ requests[r].pc = "waiting"
    /\ \E response \in ProviderAnswers :
          requests' = [requests EXCEPT ![r].pc = "answered", ![r].response = response]
    /\ UNCHANGED upload_folder
    /\ UNCHANGED <<decisionVars, content_safety>>

\* lines 82-87 and 158-175: the answer is read, a Decision is made and returned;
\* the handler's locals end with it
Finish(r) ==
    /\ requests[r].pc = "answered"
    /\ LET d == detect(requests[r].response)
           o == make_decision(d.res_content, UploadThresholds)
           ended == [requests[r] EXCEPT !.pc = "done", !.path = <<>>, !.img_content = <<>>]
       IN  requests' = [requests EXCEPT ![r] =
              IF d.exc # ""
                 THEN [ended EXCEPT !.reply = ServerError(d.exc, d.code, d.message)]
              ELSE IF o.kind = "Error"
                 THEN [ended EXCEPT !.decisions = @ + 1,
                                    !.reply = ServerError(o.error, "", "")]
              ELSE [ended EXCEPT !.decisions = @ + 1, !.reply = jsonify(o)]]
    /\ UNCHANGED upload_folder
    /\ UNCHANGED <<decisionVars, content_safety>>

Next ==
    \E r \in Requests :
        \/ Upload(r)
        \/ Save(r)
        \/ ReadFile(r)
        \/ Post(r)
        \/ Answer(r)
        \/ Finish(r)

Init ==
    /\ detection_result = NoAnalysis
    /\ reject_thresholds = <<>>
    /\ outcome = NoOutcome
    /\ remembered = NoCall
    /\ content_safety = ContentSafetyObject
    /\ UploadInit

Spec == Init /\ [][Next]_vars

\* the handler's own steps are taken when they can be; nothing makes the
\* provider answer
FairSpec ==
    /\ Spec
    /\ \A r \in Requests :
          /\ WF_vars(Save(r))
          /\ WF_vars(ReadFile(r))
          /\ WF_vars(Post(r))
          /\ WF_vars(Finish(r))

-----------------------------------------------------------------------------
(* DecisionSpec: direct calls of the decision engine on enumerated arguments *)

DecisionInit ==
    /\ detection_result \in DetectionResults
    /\ reject_thresholds \in ThresholdMaps
    /\ outcome = NoOutcome
    /\ remembered = NoCall
    /\ content_safety = ContentSafetyObject
    /\ UploadInit

\* content_safety.make_decision(detection_result, reject_thresholds)
CallMakeDecision ==
    /\ outcome' = make_decision(detection_result, reject_thresholds)
    /\ UNCHANGED <<detection_result, reject_thresholds, remembered, content_safety>>
    /\ UNCHANGED uploadVars

\* content_safety.get_detect_result_by_category(category, detection_result)
CallLookup ==
    \E category \in Category :
        /\ outcome' = get_detect_result_by_category(category, detection_result)
        /\ UNCHANGED <<detection_result, reject_thresholds, remembered, content_safety>>
        /\ UNCHANGED uploadVars

DecisionNext == CallMakeDecision \/ CallLookup

DecisionSpec == DecisionInit /\ [][DecisionNext]_vars

-----------------------------------------------------------------------------
(* What a detection result says about a category, read off the list itself *)

HasEntry(det, c) ==
    /\ det.hasAnalysis
    /\ \E i \in 1..Len(det.categoriesAnalysis) : det.categoriesAnalysis[i].category = c

\* the entry a lookup of c lands on: the first one that names c
EntryOf(det, c) ==
    LET list == det.categoriesAnalysis
        i == CHOOSE k \in 1..Len(list) :
                /\ list[k].category = c
                /\ \A j \in 1..(k - 1) : list[j].category # c
    IN  list[i]

SeverityPresent(det, c) == HasEntry(det, c) /\ EntryOf(det, c).hasSeverity
SeverityOf(det, c) == EntryOf(det, c).severity

MadeDecision == outcome.op = "make_decision"
Returned == MadeDecision /\ outcome.kind = "Decision"

\* C1: whenever make_decision returns, each configured category whose severity
\* is present (on the entry the lookup finds) has action Reject exactly when
\* its threshold is not -1 and its severity is at least the threshold, and
\* Accept otherwise; a threshold of -1 gives Accept for every severity; and
\* make_decision does return when every configured severity is present.
C1_ActionRule ==
    MadeDecision =>
        /\ (\A c \in Keys(reject_thresholds) : SeverityPresent(detection_result, c))
               => outcome.kind = "Decision"
        /\ outcome.kind = "Decision" =>
               \A i \in 1..Len(reject_thresholds) :
                  LET c == reject_thresholds[i].category
                      t == reject_thresholds[i].threshold
                  IN  /\ SeverityPresent(detection_result, c)
                      /\ outcome.action_by_category[c] = Reject
                            <=> (t # -1 /\ SeverityOf(detection_result, c) >= t)
                      /\ outcome.action_by_category[c] = Accept
                            <=> ~(t # -1 /\ SeverityOf(detection_result, c) >= t)
                      /\ t = -1 => outcome.action_by_category[c] = Accept

\* a decision with a severity equal to its threshold rejected and a severity of
\* 999 under threshold -1 accepted
C1_Witness ==
    /\ Returned
    /\ \E i \in 1..Len(reject_thresholds) :
          LET c == reject_thresholds[i].category
          IN  /\ SeverityOf(detection_result, c) = reject_thresholds[i].threshold
              /\ outcome.action_by_category[c] = Reject
    /\ \E i \in 1..Len(reject_thresholds) :
          LET c == reject_thresholds[i].category
          IN  /\ reject_thresholds[i].threshold = -1
              /\ SeverityOf(detection_result, c) = 999
              /\ outcome.action_by_category[c] = Accept

\* C2: every returned Decision has suggested_action Reject exactly when some
\* per-category action is Reject (the maximum under Accept < Reject); when every
\* configured category is below its threshold or has threshold -1, the
\* suggested action and every per-category action are Accept.
C2_SuggestedIsMax ==
    MadeDecision =>
        /\ outcome.kind = "Decision" =>
              /\ outcome.suggested_action \in Action
              /\ outcome.suggested_action = Reject
                    <=> \E c \in DOMAIN outcome.action_by_category :
                           outcome.action_by_category[c] = Reject
              /\ \A c \in DOMAIN outcome.action_by_category :
                    ActionValue(outcome.action_by_category[c])
                        <= ActionValue(outcome.suggested_action)
        /\ (\A i \in 1..Len(reject_thresholds) :
               LET c == reject_thresholds[i].category
                   t == reject_thresholds[i].threshold
               IN  /\ SeverityPresent(detection_result, c)
                   /\ (t = -1 \/ SeverityOf(detection_result, c) < t))
              => /\ outcome.kind = "Decision"
                 /\ outcome.suggested_action = Accept
                 /\ \A c \in Keys(reject_thresholds) :
                       outcome.action_by_category[c] = Accept

\* a decision that rejects the first category and accepts the second
C2_Witness ==
    /\ Returned
    /\ Len(reject_thresholds) = 2
    /\ outcome.action_by_category[reject_thresholds[1].category] = Reject
    /\ outcome.action_by_category[reject_thresholds[2].category] = Accept
    /\ outcome.suggested_action = Reject

\* some configured category has no entry in the severity results
SomeCategoryAbsent ==
    \E c \in Keys(reject_thresholds) : ~HasEntry(detection_result, c)

\* the first pair, in the order of the threshold map, whose severity the lookup
\* does not find
FirstFailing ==
    CHOOSE i \in 1..Len(reject_thresholds) :
        /\ ~SeverityPresent(detection_result, reject_thresholds[i].category)
        /\ \A j \in 1..(i - 1) :
              SeverityPresent(detection_result, reject_thresholds[j].category)

C4_LookupContract ==
    outcome.op = "get_detect_result_by_category" =>
        IF HasEntry(detection_result, outcome.arg)
        THEN outcome.kind = "Record" /\ outcome.record.category = outcome.arg
        ELSE outcome.kind = "Error" /\ outcome.error = CategoryNotFound

-----------------------------------------------------------------------------
(* Severity results that differ only on categories without a threshold *)

RemoveAt(s, i) == SubSeq(s, 1, i - 1) \o SubSeq(s, i + 1, Len(s))
InsertAt(s, i, e) == SubSeq(s, 1, i - 1) \o <<e>> \o SubSeq(s, i, Len(s))
ReplaceAt(s, i, e) == [s EXCEPT ![i] = e]

\* the detection results got from det by removing, changing or adding one entry
\* of a category that thresholds does not configure
Variants(det, thresholds) ==
    IF ~det.hasAnalysis THEN {}
    ELSE LET list == det.categoriesAnalysis
             free(e) == e.category \notin Keys(thresholds)
         IN  {Analysis(RemoveAt(list, i)) : i \in {k \in 1..Len(list) : free(list[k])}}
             \cup {Analysis(ReplaceAt(list, i, e)) :
                     i \in {k \in 1..Len(list) : free(list[k])},
                     e \in {x \in Entries : free(x)}}
             \cup {Analysis(InsertAt(list, i, e)) :
                     i \in 1..(Len(list) + 1), e \in {x \in Entries : free(x)}}

\* C5: a returned breakdown has exactly the keys of the threshold map; removing,
\* changing or adding the entry of a category without a threshold leaves the
\* outcome of make_decision as it is; an empty threshold map gives Accept with
\* an empty breakdown.
C5_OnlyConfiguredCategories ==
    MadeDecision =>
        /\ outcome.kind = "Decision" =>
              DOMAIN outcome.action_by_category = Keys(reject_thresholds)
        /\ \A d \in Variants(detection_result, reject_thresholds) :
              make_decision(d, reject_thresholds) = outcome
        /\ reject_thresholds = <<>> =>
              /\ outcome.kind = "Decision"
              /\ outcome.suggested_action = Accept
              /\ outcome.action_by_category = EmptyMap

\* a decision on a threshold map with one key while the severity results also
\* carry a rejectable severity for the category left out
C5_Witness ==
    /\ Returned
    /\ Keys(reject_thresholds) = {"Hate"}
    /\ outcome.suggested_action = Accept
    /\ HasEntry(detection_result, "Violence")
    /\ EntryOf(detection_result, "Violence").hasSeverity
    /\ SeverityOf(detection_result, "Violence") = 999
    /\ detection_result.categoriesAnalysis[1].category = "Violence"

-----------------------------------------------------------------------------
(* PureSpec: sequences of make_decision calls with changing arguments *)

PureDetectionResults == DetectionResultsUpTo(1)
PureThresholdMaps == ThresholdMapsUpTo(1)

PureInit ==
    /\ detection_result \in PureDetectionResults
    /\ reject_thresholds \in PureThresholdMaps
    /\ outcome = NoOutcome
    /\ remembered = NoCall
    /\ content_safety = ContentSafetyObject
    /\ UploadInit

SameArguments ==
    /\ remembered.det = detection_result
    /\ remembered.thr = reject_thresholds

\* content_safety.make_decision(detection_result, reject_thresholds); the
\* observer may keep the first call it sees, and notes where later calls stand
\* with respect to the one it kept
PureCall ==
    /\ outcome' = make_decision(detection_result, reject_thresholds)
    /\ \E keep \in BOOLEAN :
          remembered' =
             IF remembered.stage = 0 /\ keep
                THEN [stage |-> 1, det |-> detection_result,
                      thr |-> reject_thresholds, outcome |-> outcome']
             ELSE IF remembered.stage = 1 /\ ~SameArguments
                THEN [remembered EXCEPT !.stage = 2]
             ELSE IF remembered.stage = 2 /\ SameArguments
                THEN [remembered EXCEPT !.stage = 3]
             ELSE remembered
    /\ UNCHANGED <<detection_result, reject_thresholds, content_safety>>
    /\ UNCHANGED uploadVars

\* the caller builds another detection result or another threshold map for its
\* next call
NewArguments ==
    /\ remembered.stage < 3
    /\ \/ \E d \in PureDetectionResults \ {detection_result} :
             /\ detection_result' = d
             /\ UNCHANGED reject_thresholds
       \/ \E t \in PureThresholdMaps \ {reject_thresholds} :
             /\ reject_thresholds' = t
             /\ UNCHANGED detection_result
    /\ UNCHANGED <<outcome, remembered, content_safety>>
    /\ UNCHANGED uploadVars

PureNext == PureCall \/ NewArguments

PureSpec == PureInit /\ [][PureNext]_vars

-----------------------------------------------------------------------------
(* The upload handler's claims *)

\* the name ends in a dot and an allow-listed extension, letter case aside
HasAllowedExtension(name) ==
    \E e \in ALLOWED_EXTENSIONS :
        /\ Len(name) > Len(e)
        /\ name[Len(name) - Len(e)] = "."
        /\ Lower(SubSeq(name, Len(name) - Len(e) + 1, Len(name))) = e

InvalidUpload(q) ==
    \/ ~q.has_file
    \/ q.filename = <<>>
    \/ ~HasAllowedExtension(q.filename)

\* C6: a request without a file part, with an empty file name or with a file
\* name whose extension (what follows the last dot, letter case aside) is not
\* png, jpg, jpeg or gif is answered 400 as soon as it is handled; it writes
\* no file to the upload folder, never calls the provider and never invokes
\* make_decision.
C6_InvalidUploadRejected ==
    \A r \in Requests :
        LET q == requests[r]
        IN  (q.pc # "idle" /\ InvalidUpload(q)) =>
               /\ q.pc = "done"
               /\ q.reply.status = 400
               /\ q.saves = 0
               /\ q.calls = 0
               /\ q.decisions = 0
               /\ \A p \in DOMAIN upload_folder : upload_folder[p] # ImageOf(r)

\* "cat.exe" was answered 400 while another request's file is in the folder
C6_Witness ==
    \E r, other \in Requests :
        /\ requests[r].has_file
        /\ requests[r].filename = <<"c", "a", "t", ".", "e", "x", "e">>
        /\ requests[r].pc = "done"
        /\ requests[r].reply = ClientError("Invalid file format")
        /\ requests[other].saves = 1
        /\ upload_folder # EmptyMap

C9_OwnContent ==
    \A r \in Requests :
        requests[r].pc \in {"waiting", "answered"} =>
            requests[r].img_content = b64encode(ImageOf(r))

\* C10: every request that passed validation eventually completes, with a
\* Decision or an error, even when the provider never answers.
C10_Completes ==
    \A r \in Requests : (requests[r].pc = "save") ~> (requests[r].pc = "done")

====
